---- MODULE Spec2Model ----
(***************************************************************************)
(* The BLE client of the Fama sofa integration                             *)
(* (custom_components/fama_sofas/ble_client.py): the channel arbiter, the  *)
(* repeating command loops, the connection manager and the facade          *)
(* send_command / stop / disconnect, as asyncio schedules them.  One       *)
(* action is one run of a coroutine from one suspension point (await) to   *)
(* the next.                                                               *)
(***************************************************************************)
EXTENDS Integers, Sequences, FiniteSets, TLC

\* ------------------------------------------------------------- bounds
MaxLoops == 2        \* command loop tasks alive at the same time
MaxCalls == 2        \* facade calls in progress at the same time
MaxDurTicks == 1     \* longest duration of a command, in command intervals
MaxClients == 2      \* BleakClient objects alive at the same time
MaxFaults == 1       \* faults of the link in a run: drops, failed connects and writes
MaxSends == 2        \* send_command calls of a counted run
MaxDisconnects == 1  \* disconnect() calls in a run
MaxConnFaults == 3   \* faults of the link in a run that observes the connecting
ScenarioTicks == 25  \* duration of the command of the scenario run, in command intervals

\* ---------------------------------------------------------- constants
CMD_MOTOR1_OPEN == 3
CMD_MOTOR1_CLOSE == 4
CMD_MOTOR2_OPEN == 1
CMD_MOTOR2_CLOSE == 2
CMD_BOTH_OPEN == 5
CMD_BOTH_CLOSE == 6
CMD_STOP == 7
COMMAND_INTERVAL_MS == 200
MAX_CONNECT_RETRIES == 3

MOTOR1_COMMANDS == {CMD_MOTOR1_OPEN, CMD_MOTOR1_CLOSE}
MOTOR2_COMMANDS == {CMD_MOTOR2_OPEN, CMD_MOTOR2_CLOSE}
BOTH_MOTOR_COMMANDS == {CMD_BOTH_OPEN, CMD_BOTH_CLOSE}

\* The commands and durations (ms) the callers pass to send_command.
CmdInputs == {CMD_MOTOR1_OPEN, CMD_MOTOR2_OPEN, CMD_BOTH_OPEN}
Durations == {k * COMMAND_INTERVAL_MS : k \in 1..MaxDurTicks}

LoopIds == 1..MaxLoops
CallIds == 1..MaxCalls
ClientIds == 1..MaxClients
Channels == {"motor1", "motor2", "both"}

\* ------------------------------------------------------ pure functions
command_channel_swapped(cmd) ==
    IF cmd \in MOTOR1_COMMANDS THEN "motor2"
    ELSE IF cmd \in MOTOR2_COMMANDS THEN "motor1"
    ELSE "both"

command_channel(cmd) ==
    IF cmd \in MOTOR1_COMMANDS THEN "motor1"
    ELSE IF cmd \in MOTOR2_COMMANDS THEN "motor2"
    ELSE "both"

conflicting_channels_own(cmd) == {command_channel(cmd)}

conflicting_channels_all(cmd) == {"motor1", "motor2", "both"}

conflicting_channels(cmd) ==
    IF cmd \in MOTOR1_COMMANDS THEN {"motor1", "both"}
    ELSE IF cmd \in MOTOR2_COMMANDS THEN {"motor2", "both"}
    ELSE {"motor1", "motor2", "both"}

\* The orders in which a Python set of strings can be iterated.
Orders(S) ==
    {s \in [1..Cardinality(S) -> S] : \A i, j \in DOMAIN s : i # j => s[i] # s[j]}

\* A dict that keeps insertion order: a sequence of [ch, task].
DictGet(d, ch) ==
    IF \E i \in DOMAIN d : d[i].ch = ch
    THEN d[CHOOSE i \in DOMAIN d : d[i].ch = ch].task
    ELSE 0

DictPop(d, ch) == SelectSeq(d, LAMBDA e : e.ch # ch)

DictSet(d, ch, t) ==
    IF \E i \in DOMAIN d : d[i].ch = ch
    THEN [i \in DOMAIN d |-> IF d[i].ch = ch THEN [ch |-> ch, task |-> t] ELSE d[i]]
    ELSE Append(d, [ch |-> ch, task |-> t])

DictKeys(d) == [i \in DOMAIN d |-> d[i].ch]

\* -------------------------------------------------------------- state
VARIABLES
    command_tasks,   \* self._command_tasks: channel -> loop, in insertion order
    lock,            \* self._lock: the call holding it, or 0
    client,          \* self._client: a client id, or 0 for None
    target_char,     \* self._target_char: the client it was resolved on, or 0
    cstate,          \* each BleakClient: free, connecting, connected, lost
    known,           \* whether the Bluetooth scanner knows the address
    loops,           \* the _command_loop tasks
    calls,           \* the send_command / stop / disconnect calls
    lastCmd,         \* how the last send ended: the command of the frame the
                     \* device received, or SendFailed; 0 before any send
    faults,          \* the faults the link may still have
    disconnects,     \* the disconnect() calls so far
    tally,           \* in a counted run: the send_command calls, the loops they
                     \* cancelled and the stop frames the device received
    log              \* in an observed run: the attempts, sleeps and outcome of
                     \* the last _ensure_connected and the frames written

vars == <<command_tasks, lock, client, target_char, cstate, known, loops,
          calls, lastCmd, faults, disconnects, tally, log>>

NoLoop ==
    [pc |-> "free", phase |-> "try", cmd |-> 0, left |-> 0, cancelReq |-> FALSE,
     scmd |-> 0, attempt |-> 0, local |-> 0, exit |-> "none", npre |-> 0,
     unfinished |-> {}]

NoCall ==
    [op |-> "none", pc |-> "idle", cmd |-> 0, dur |-> 0, todo |-> <<>>,
     pre |-> {}, waiting |-> 0, scmd |-> 0, attempt |-> 0, local |-> 0,
     result |-> "none", caught |-> FALSE]

\* The template of every frame, and the index of its command byte.
COMMAND_FRAME == <<0, 0, 0, 1, 1, 1, 0, 0>>
COMMAND_BYTE_INDEX == 2

NoError == [n |-> 0, kind |-> "none"]

\* Nothing observed yet.
NoLog ==
    [on |-> FALSE, attempts |-> 0, sleeps |-> <<>>, last |-> NoError,
     ended |-> "none", error |-> "none", carried |-> NoError, held |-> FALSE,
     slow |-> FALSE, frames |-> 0, code |-> 0, frame |-> <<>>,
     template |-> COMMAND_FRAME]

\* The client after __init__.
Constructed ==
    /\ command_tasks = <<>>
    /\ lock = 0
    /\ client = 0
    /\ target_char = 0
    /\ cstate = [c \in ClientIds |-> "free"]
    /\ known = TRUE
    /\ loops = [l \in LoopIds |-> NoLoop]
    /\ calls = [c \in CallIds |-> NoCall]
    /\ lastCmd = 0
    /\ disconnects = 0

\* A link that stays up unless the client closes it.
Init ==
    /\ Constructed
    /\ faults = 0
    /\ tally = [on |-> FALSE, sends |-> 0, preempts |-> 0, stops |-> 0]
    /\ log = NoLog

\* A link that may fail.
InitFaults ==
    /\ Constructed
    /\ faults = MaxFaults
    /\ tally = [on |-> FALSE, sends |-> 0, preempts |-> 0, stops |-> 0]
    /\ log = NoLog

\* A run without faults that counts its calls and stop frames.
InitCounted ==
    /\ Constructed
    /\ faults = 0
    /\ tally = [on |-> TRUE, sends |-> 0, preempts |-> 0, stops |-> 0]
    /\ log = NoLog

SendFailed == 0 - 1

\* The whole state as one value, so that the code between two awaits is a
\* function from state to state.
World ==
    [ct |-> command_tasks, lock |-> lock, client |-> client, char |-> target_char,
     cstate |-> cstate, known |-> known, loops |-> loops, calls |-> calls,
     lastCmd |-> lastCmd, faults |-> faults, disconnects |-> disconnects,
     tally |-> tally, log |-> log,
     blocked |-> FALSE]

\* A finished task nothing refers to any more is garbage: its slot is free.
Collected(w) ==
    [l \in LoopIds |->
        IF /\ w.loops[l].pc = "done"
           /\ \A i \in DOMAIN w.ct : w.ct[i].task # l
           /\ \A c \in CallIds : w.calls[c].waiting # l /\ l \notin w.calls[c].pre
        THEN NoLoop ELSE w.loops[l]]

Count(w, what) == IF w.tally.on THEN [w EXCEPT !.tally[what] = @ + 1] ELSE w

\* An observed run records field f of its log.
Note(w, f, v) == IF w.log.on THEN [w EXCEPT !.log[f] = v] ELSE w

Apply(w) ==
    /\ ~w.blocked
    /\ command_tasks' = w.ct
    /\ lock' = w.lock
    /\ client' = w.client
    /\ target_char' = w.char
    /\ cstate' = w.cstate
    /\ known' = w.known
    /\ loops' = Collected(w)
    /\ calls' = w.calls
    /\ lastCmd' = w.lastCmd
    /\ faults' = w.faults
    /\ tally' = w.tally
    /\ disconnects' = w.disconnects
    /\ log' = w.log

\* A task that sends frames: a command loop or a stop() call.
L(l) == <<"loop", l>>
K(c) == <<"call", c>>
Get(w, s) == IF s[1] = "loop" THEN w.loops[s[2]] ELSE w.calls[s[2]]
Put(w, s, r) ==
    IF s[1] = "loop" THEN [w EXCEPT !.loops[s[2]] = r]
    ELSE [w EXCEPT !.calls[s[2]] = r]

\* ------------------------------------------------- connection manager
Referenced(w, c) ==
    \/ w.client = c
    \/ \E l \in LoopIds : w.loops[l].local = c
    \/ \E k \in CallIds : w.calls[k].local = c

FreeClients(w) == {c \in ClientIds : w.cstate[c] = "free" /\ ~Referenced(w, c)}

is_connected(w, c) == c # 0 /\ w.cstate[c] = "connected"

\* _find_characteristic: the characteristic resolved on client c.
find_characteristic(c) == c

\* One pass of the retry loop of _ensure_connected, up to its await: the
\* scanner lookup, then BleakClient(...) and the start of connect().
\* n is the attempt number.  A lookup that finds nothing raises BleakError,
\* which the same except clause handles as a failed attempt.
connect_attempt(w0, s, cmd, n) ==
    LET w == Note(w0, "attempts", n)
        r == Get(w, s) IN
    IF ~w.known
    THEN Put(Note(w, "last", [n |-> n, kind |-> "not_found"]), s,
             [r EXCEPT !.pc = "lookup_failed", !.scmd = cmd, !.attempt = n, !.local = 0])
    ELSE IF FreeClients(w) = {}
    THEN [w EXCEPT !.blocked = TRUE]
    ELSE LET c == CHOOSE x \in FreeClients(w) : \A y \in FreeClients(w) : x <= y IN
         Put([w EXCEPT !.cstate[c] = "connecting"], s,
             [r EXCEPT !.pc = "connecting", !.scmd = cmd, !.attempt = n, !.local = c])

\* An observed run starts the log of a new _ensure_connected call.
Started(w) ==
    IF w.log.on
    THEN [w EXCEPT !.log = [@ EXCEPT !.attempts = 0, !.sleeps = <<>>, !.last = NoError,
                                     !.ended = "running", !.error = "none",
                                     !.carried = NoError, !.held = FALSE]]
    ELSE w

\* _send_single_command up to its first await: _ensure_connected returns the
\* held client at once when it is connected and the write is issued;
\* otherwise the stale client is dropped and attempt 1 starts.
send_single_command(w0, s, cmd) ==
    LET w == Started(w0)
        r == Get(w, s) IN
    IF is_connected(w, w.client)
    THEN Put(Note(Note(w, "ended", "returned"), "held", TRUE),
             s, [r EXCEPT !.pc = "writing", !.scmd = cmd, !.attempt = 0,
                          !.local = w.client])
    ELSE LET w1 == connect_attempt([w EXCEPT !.client = 0, !.char = 0], s, cmd, 1) IN
         IF w1.blocked THEN w1
         ELSE LET r1 == Get(w1, s) IN
              \* attempt 1 < MAX_CONNECT_RETRIES: a failed lookup goes to the backoff sleep
              IF r1.pc = "lookup_failed" THEN Put(w1, s, [r1 EXCEPT !.pc = "backoff"])
              ELSE w1

\* ---------------------------------------------------------- command loop
\* has_others of the finally block: some task in the dict is not done.
has_others_none(w) == FALSE

has_others(w) == \E i \in DOMAIN w.ct : w.loops[w.ct[i].task].pc # "done"

\* Whether the finally block sends the trailing stop frame.
trailing_stop_also_cancelled(w, cancelled) == ~has_others(w)

trailing_stop_never(w, cancelled) == FALSE

trailing_stop(w, cancelled) == ~cancelled /\ ~has_others(w)

\* The finally block of _command_loop, entered with the way the try block
\* ended: pop the channel's entry, then maybe start sending the stop frame.
command_loop_finally(w, l, kind) ==
    LET r  == w.loops[l]
        w1 == [w EXCEPT !.ct = DictPop(@, command_channel(r.cmd)),
                        !.loops[l] = [NoLoop EXCEPT !.pc = "finally", !.exit = kind,
                                                    !.phase = "finally"]]
    IN IF trailing_stop(w1, kind = "cancelled")
       THEN send_single_command(w1, L(l), CMD_STOP)
       ELSE [w1 EXCEPT !.loops[l] = [NoLoop EXCEPT !.pc = "done"]]

\* ------------------------------------------------------------- facade
\* What stop() hands to its caller when its own send raised or not.
stop_result_unguarded(raised) == IF raised THEN "raised" ELSE "returned"

stop_result(raised) == "returned"

\* What send_command hands to its caller once the loop is scheduled.
send_command_result_eager(w) ==
    IF is_connected(w, w.client) THEN "returned" ELSE "raised"

send_command_result(w) == "returned"

\* A call returns (or raises): `async with` releases the lock either way.
Return(w, c, res, caught) ==
    [w EXCEPT !.calls[c] = [NoCall EXCEPT !.result = res, !.caught = caught],
              !.lock = IF @ = c THEN 0 ELSE @]

\* _build_command: a copy of the template with the command byte set.  The
\* result is the frame and the template as the call leaves it.
build_command_in_place(template, cmd) ==
    [frame    |-> [template EXCEPT ![COMMAND_BYTE_INDEX + 1] = cmd],
     template |-> [template EXCEPT ![COMMAND_BYTE_INDEX + 1] = cmd]]

build_command(template, cmd) ==
    [frame    |-> [template EXCEPT ![COMMAND_BYTE_INDEX + 1] = cmd],
     template |-> template]

\* The frame reaches the device.
Deliver(w, s, cmd) ==
    LET b  == build_command(w.log.template, cmd)
        w0 == IF w.log.on
              THEN [w EXCEPT !.log.frame = b.frame, !.log.template = b.template,
                             !.log.code = cmd,
                             !.log.frames = IF cmd = CMD_STOP THEN @ ELSE @ + 1]
              ELSE w
        w1 == [w0 EXCEPT !.lastCmd = cmd] IN
    IF cmd = CMD_STOP THEN Count(w1, "stops") ELSE w1

\* The send of task s completed: the write was acknowledged.
SendOk(w, s) ==
    IF s[1] = "loop"
    THEN LET r == w.loops[s[2]] IN
         IF r.phase = "try"
         THEN [w EXCEPT !.loops[s[2]] = [r EXCEPT !.pc = "sleeping", !.scmd = 0,
                                                  !.attempt = 0, !.local = 0]]
         ELSE [w EXCEPT !.loops[s[2]] = [NoLoop EXCEPT !.pc = "done"]]
    ELSE Return(w, s[2], stop_result(FALSE), FALSE)

SendRaised_retried(w0, s) ==
    LET w == [w0 EXCEPT !.lastCmd = SendFailed] IN
    IF s[1] = "loop"
    THEN LET r == w.loops[s[2]] IN
         IF r.phase = "try"
         THEN [w EXCEPT !.loops[s[2]] = [r EXCEPT !.pc = "backoff", !.attempt = 1,
                                                  !.local = 0]]
         ELSE [w EXCEPT !.loops[s[2]] = [NoLoop EXCEPT !.pc = "done"]]
    ELSE Return(w, s[2], stop_result(TRUE), TRUE)

\* The send of task s raised: the except clauses of the loop, of its finally
\* block and of stop().
SendRaised(w0, s) ==
    LET w == [w0 EXCEPT !.lastCmd = SendFailed] IN
    IF s[1] = "loop"
    THEN LET r == w.loops[s[2]] IN
         IF r.phase = "try"
         THEN command_loop_finally(w, s[2], "error")
         ELSE [w EXCEPT !.loops[s[2]] = [NoLoop EXCEPT !.pc = "done"]]
    ELSE Return(w, s[2], stop_result(TRUE), TRUE)

\* `if attempt < MAX_CONNECT_RETRIES`: another attempt follows attempt n.
more_attempts_one_more(n) == n <= MAX_CONNECT_RETRIES

more_attempts(n) == n < MAX_CONNECT_RETRIES

\* The error _ensure_connected raises when it gives up: always the BleakError
\* "Failed to connect ... after 3 attempts", whatever the last error was.
raised_error(last) == "ConnectionFailed"

\* A failed attempt n: sleep 1.0 * n and try again, or give up after the last.
RetryOrRaise(w, s) ==
    LET r == Get(w, s) IN
    IF more_attempts(r.attempt)
    THEN Put(w, s, [r EXCEPT !.pc = "backoff", !.local = 0])
    ELSE SendRaised(Note(Note(Note(w, "ended", "raised"),
                              "error", raised_error(w.log.last)),
                         "carried", w.log.last), s)

\* `await task` in _cancel_channel suspends the caller until the task is done.
await_task_skipped(w, t) == FALSE

await_task(w, t) == w.loops[t].pc # "done"

\* The lowest unused loop id: the task asyncio.create_task returns.
NewLoop(w) == CHOOSE l \in LoopIds :
    /\ w.loops[l].pc = "free"
    /\ \A m \in LoopIds : w.loops[m].pc = "free" => l <= m

\* What a call does once every channel of its list is cancelled.
Finish(w, c) ==
    LET k == w.calls[c] IN
    CASE k.op = "send" ->
           \* create_task, store it under the channel, leave the lock
           LET w0 == [w EXCEPT !.calls[c].pre = {}]
               w1 == [w0 EXCEPT !.loops = Collected(w0)]
               n  == NewLoop(w1)
           IN IF \A l \in LoopIds : w1.loops[l].pc # "free"
              THEN [w EXCEPT !.blocked = TRUE]
              ELSE Return(Count([w1 EXCEPT
                       !.ct = DictSet(@, command_channel(k.cmd), n),
                       !.loops[n] = [NoLoop EXCEPT
                           !.pc = "created", !.cmd = k.cmd, !.left = k.dur,
                           !.npre = Cardinality(k.pre),
                           !.unfinished = {l \in k.pre : w.loops[l].pc # "done"}]],
                       "sends"), c, send_command_result(w), FALSE)
      [] k.op = "stop" ->
           send_single_command([w EXCEPT !.calls[c].todo = <<>>], K(c), CMD_STOP)
      [] OTHER ->
           \* disconnect(): close the client when connected, then forget it
           IF is_connected(w, w.client)
           THEN [w EXCEPT !.calls[c].pc = "closing", !.calls[c].local = w.client]
           ELSE Return([w EXCEPT !.client = 0, !.char = 0], c, "returned", FALSE)

\* _cancel_channel for each channel of the call's list, up to the first await.
RECURSIVE CancelChannels(_, _)
CancelChannels(w, c) ==
    LET k == w.calls[c] IN
    IF k.todo = <<>> THEN Finish(w, c)
    ELSE LET ch == Head(k.todo)
             t  == DictGet(w.ct, ch)
         IN IF t # 0 /\ w.loops[t].pc # "done"
            THEN LET w0 == IF k.op = "send" THEN Count(w, "preempts") ELSE w
                     w1 == [w0 EXCEPT !.loops[t].cancelReq = TRUE,
                                      !.calls[c].pre = IF k.op = "send"
                                                       THEN @ \cup {t} ELSE @]
                 IN IF await_task(w1, t)
                    THEN [w1 EXCEPT !.calls[c].pc = "awaiting", !.calls[c].waiting = t]
                    ELSE CancelChannels([w1 EXCEPT !.ct = DictPop(@, ch),
                                                   !.calls[c].todo = Tail(@),
                                                   !.calls[c].pc = "running"], c)
            ELSE CancelChannels([w EXCEPT !.ct = DictPop(@, ch),
                                          !.calls[c].todo = Tail(@),
                                          !.calls[c].pc = "running"], c)

\* The body of `async with self._lock` of send_command and stop.
Locked(w, c) ==
    LET k  == w.calls[c]
        w1 == [w EXCEPT !.lock = c,
                        !.calls[c].todo = IF k.op = "stop" THEN DictKeys(w.ct) ELSE @]
    IN CancelChannels(w1, c)

\* ------------------------------------------------------------- actions
FirstIdle(c) ==
    /\ calls[c].pc = "idle"
    /\ \A k \in CallIds : calls[k].pc = "idle" => c <= k

SendsInProgress == {k \in CallIds : calls[k].pc # "idle" /\ calls[k].op = "send"}

\* The task slots a send_command of cmd can count on: the free ones and those
\* of the loops it cancels.
SlotsFor(cmd) ==
    {l \in LoopIds : \/ loops[l].pc = "free"
                     \/ \E i \in DOMAIN command_tasks :
                          /\ command_tasks[i].task = l
                          /\ command_tasks[i].ch \in conflicting_channels(cmd)}

\* `async with self._lock`: a call goes on when it has the lock.  The time it
\* waits for the lock changes nothing, so a call starts here.
lock_acquired(w) == w.lock = 0

SendCommand(c, cmd, dur, order) ==
    /\ FirstIdle(c)
    /\ lock_acquired(World)
    /\ Cardinality(SlotsFor(cmd)) > Cardinality(SendsInProgress)
    /\ tally.on => tally.sends + Cardinality(SendsInProgress) < MaxSends
    /\ Apply(Locked([World EXCEPT !.calls[c] =
            [NoCall EXCEPT !.op = "send", !.pc = "running", !.cmd = cmd, !.dur = dur,
                           !.todo = order]], c))

Stop(c) ==
    /\ FirstIdle(c)
    /\ lock_acquired(World)
    /\ Apply(Locked([World EXCEPT !.calls[c] =
            [NoCall EXCEPT !.op = "stop", !.pc = "running"]], c))

Disconnect(c) ==
    /\ FirstIdle(c)
    /\ disconnects < MaxDisconnects
    /\ Apply(CancelChannels([World EXCEPT !.disconnects = @ + 1, !.calls[c] =
            [NoCall EXCEPT !.op = "disconnect", !.pc = "running",
                           !.todo = DictKeys(command_tasks)]], c))

\* The task a call awaits is done: pop the channel, go on with the rest.
TaskAwaited(c) ==
    /\ calls[c].pc = "awaiting"
    /\ loops[calls[c].waiting].pc = "done"
    /\ Apply(CancelChannels([World EXCEPT !.ct = DictPop(@, Head(calls[c].todo)),
                                          !.calls[c].todo = Tail(@),
                                          !.calls[c].waiting = 0,
                                          !.calls[c].pc = "running"], c))

\* client.disconnect() of disconnect() completed: forget the client.  The
\* closed link may still notify _on_disconnect later.
CloseDone(c) ==
    /\ calls[c].pc = "closing"
    /\ LET x == calls[c].local
           w == [World EXCEPT !.cstate[x] = IF @ = "connected" THEN "lost" ELSE @,
                              !.client = 0, !.char = 0]
       IN Apply(Return(w, c, "returned", FALSE))

\* The tasks that send frames, and whether one may run: a task asked to
\* cancel only ever receives CancelledError.
Senders == {L(l) : l \in LoopIds} \cup {K(c) : c \in CallIds}
Runs(s) == s[1] = "call" \/ ~loops[s[2]].cancelReq

\* `while time() < end_time`, with `left` the time to end_time.
while_running_inclusive(left) == left >= 0

while_running(left) == left > 0

\* First run of the task: the while condition holds for a positive duration.
LoopStart(l) ==
    /\ loops[l].pc = "created"
    /\ ~loops[l].cancelReq
    /\ LET w == [World EXCEPT !.loops[l].npre = 0] IN
       Apply(IF while_running(loops[l].left)
             THEN send_single_command(w, L(l), loops[l].cmd)
             ELSE command_loop_finally(w, l, "natural"))

\* The time to end_time after `await asyncio.sleep(COMMAND_INTERVAL_SEC)`.
after_sleep_frozen(left) == left

after_sleep(left) == left - COMMAND_INTERVAL_MS

\* asyncio.sleep(COMMAND_INTERVAL_SEC) is over: the while condition again.
SleepDone(l) ==
    /\ loops[l].pc = "sleeping"
    /\ ~loops[l].cancelReq
    /\ LET left == after_sleep(loops[l].left)
           w    == [World EXCEPT !.loops[l].left = left]
       IN Apply(IF while_running(left)
                THEN send_single_command(w, L(l), loops[l].cmd)
                ELSE command_loop_finally(w, l, "natural"))

\* client.connect() returned: hold the client, resolve the characteristic,
\* return it to _send_single_command, which issues the write.
ConnectOk(s) ==
    /\ Runs(s)
    /\ Get(World, s).pc = "connecting"
    /\ LET r == Get(World, s)
           w == [World EXCEPT !.cstate[r.local] = "connected",
                              !.client = r.local,
                              !.char = find_characteristic(r.local)] IN
       /\ cstate[r.local] = "connecting"
       /\ Apply(Put(Note(Note(w, "ended", "returned"), "held", w.client = r.local),
                    s, [r EXCEPT !.pc = "writing"]))

\* client.connect() raised BleakError, TimeoutError or OSError.
ConnectFail(s) ==
    /\ Runs(s)
    /\ Get(World, s).pc = "connecting"
    /\ faults > 0
    /\ LET r == Get(World, s) IN
       Apply(RetryOrRaise(Note([World EXCEPT !.cstate[r.local] = "free",
                                             !.faults = @ - 1],
                               "last", [n |-> r.attempt, kind |-> "connect"]), s))

\* The time a command loop has left after t more milliseconds.
Elapse(w, s, t) ==
    IF s[1] = "loop" /\ w.loops[s[2]].phase = "try"
    THEN [w EXCEPT !.loops[s[2]].left = IF @ > t THEN @ - t ELSE 0]
    ELSE w

\* `await asyncio.sleep(1.0 * attempt)`, in milliseconds.
backoff_ms_flat(attempt) == 1000

backoff_ms(attempt) == 1000 * attempt

\* The backoff sleep of 1.0 * attempt seconds is over: the next attempt.
BackoffDone(s) ==
    /\ Runs(s)
    /\ Get(World, s).pc = "backoff"
    /\ LET r  == Get(World, s)
           w0 == Note(World, "sleeps", Append(log.sleeps, backoff_ms(r.attempt)))
           w1 == connect_attempt(Elapse(w0, s, backoff_ms(r.attempt)), s, r.scmd,
                                 r.attempt + 1)
       IN Apply(IF ~w1.blocked /\ Get(w1, s).pc = "lookup_failed"
                THEN RetryOrRaise(w1, s)
                ELSE w1)

\* write_gatt_char was acknowledged: the device has the frame.
WriteOk(s) ==
    /\ Runs(s)
    /\ Get(World, s).pc = "writing"
    /\ LET r == Get(World, s) IN
       /\ cstate[r.local] = "connected"
       /\ Apply(SendOk(Deliver(World, s, r.scmd), s))

\* The time an acknowledged write may take: here as long as one interval.
Latency == COMMAND_INTERVAL_MS

\* write_gatt_char was acknowledged after a while.
WriteSlow(s) ==
    /\ Runs(s)
    /\ Get(World, s).pc = "writing"
    /\ LET r == Get(World, s) IN
       /\ cstate[r.local] = "connected"
       /\ Apply(SendOk(Elapse(Note(Deliver(World, s, r.scmd), "slow", TRUE),
                              s, Latency), s))

\* write_gatt_char raised: the link of the client is gone, or a fault.
WriteFail(s) ==
    /\ Runs(s)
    /\ Get(World, s).pc = "writing"
    /\ LET gone == cstate[Get(World, s).local] # "connected" IN
       /\ gone \/ faults > 0
       /\ Apply(SendRaised([World EXCEPT !.faults = IF gone THEN @ ELSE @ - 1], s))

\* The cancelled task runs next: CancelledError at the await it is in.  A task
\* that never ran ends without entering its body.  A write in flight has
\* reached the device or not.
CancelDelivered(l, landed) ==
    /\ loops[l].cancelReq
    /\ loops[l].pc # "done"
    /\ landed => loops[l].pc = "writing" /\ cstate[loops[l].local] = "connected"
    /\ LET r  == loops[l]
           w0 == IF landed THEN Deliver(World, L(l), r.scmd) ELSE World
           w1 == IF r.pc = "connecting"
                 THEN [w0 EXCEPT !.cstate[r.local] = "free"] ELSE w0
       IN Apply(IF r.pc = "created" \/ r.phase = "finally"
                THEN [w1 EXCEPT !.loops[l] = [NoLoop EXCEPT !.pc = "done"]]
                ELSE command_loop_finally(w1, l, "cancelled"))

\* ---------------------------------------------------------- environment
\* The scanner loses the device (a fault) or finds it again.
ScannerChange ==
    /\ known => faults > 0
    /\ known' = ~known
    /\ faults' = IF known THEN faults - 1 ELSE faults
    /\ UNCHANGED <<command_tasks, lock, client, target_char, cstate, loops, calls,
                   lastCmd, disconnects, tally, log>>

\* The device drops the link of client c.
Drop(c) ==
    /\ cstate[c] = "connected"
    /\ faults > 0
    /\ cstate' = [cstate EXCEPT ![c] = "lost"]
    /\ faults' = faults - 1
    /\ UNCHANGED <<command_tasks, lock, client, target_char, known, loops, calls,
                   lastCmd, disconnects, tally, log>>

OnDisconnect_keeps(c) ==
    /\ cstate[c] = "lost"
    /\ cstate' = [cstate EXCEPT ![c] = "free"]
    /\ UNCHANGED <<command_tasks, lock, client, target_char, known, loops, calls,
                   lastCmd, faults, disconnects, tally, log>>

\* _on_disconnect, the disconnected_callback of client c.
OnDisconnect(c) ==
    /\ cstate[c] = "lost"
    /\ cstate' = [cstate EXCEPT ![c] = "free"]
    /\ client' = 0
    /\ target_char' = 0
    /\ UNCHANGED <<command_tasks, lock, known, loops, calls, lastCmd, faults,
                   disconnects, tally, log>>

\* ------------------------------------------------------- specifications
\* The steps of send_command and stop, which take the lock.
CallStep ==
    \/ \E c \in CallIds, cmd \in CmdInputs, dur \in Durations :
         \E order \in Orders(conflicting_channels(cmd)) : SendCommand(c, cmd, dur, order)
    \/ \E c \in CallIds : Stop(c)
    \/ \E c \in CallIds : TaskAwaited(c)

\* The steps of the tasks on a link that does what it is asked.
TaskStep ==
    \/ \E l \in LoopIds : LoopStart(l)
    \/ \E l \in LoopIds : SleepDone(l)
    \/ \E s \in Senders : ConnectOk(s)
    \/ \E s \in Senders : WriteOk(s)
    \/ \E l \in LoopIds, landed \in BOOLEAN : CancelDelivered(l, landed)

\* The faults of the link and what follows them.
FaultStep ==
    \/ ScannerChange
    \/ \E c \in ClientIds : Drop(c)
    \/ \E s \in Senders : ConnectFail(s)
    \/ \E s \in Senders : BackoffDone(s)

\* disconnect(), which takes no lock, and what follows a closed link.
DisconnectStep ==
    \/ \E c \in CallIds : Disconnect(c)
    \/ \E c \in CallIds : CloseDone(c)

Gone ==
    \/ \E s \in Senders : WriteFail(s)
    \/ \E c \in ClientIds : OnDisconnect(c)

\* send_command, stop and disconnect on a link without faults.
Next == CallStep \/ TaskStep \/ DisconnectStep \/ Gone

Spec == Init /\ [][Next]_vars

\* send_command and stop on a link with faults.
NextFaults == CallStep \/ TaskStep \/ FaultStep \/ Gone

SpecFaults == InitFaults /\ [][NextFaults]_vars

\* A counted run: send_command calls only, on a link without faults.
NextCounted ==
    \/ \E c \in CallIds, cmd \in CmdInputs, dur \in Durations :
         \E order \in Orders(conflicting_channels(cmd)) : SendCommand(c, cmd, dur, order)
    \/ \E c \in CallIds : TaskAwaited(c)
    \/ \E l \in LoopIds : LoopStart(l)
    \/ \E l \in LoopIds : SleepDone(l)
    \/ \E s \in Senders : ConnectOk(s)
    \/ \E s \in Senders : WriteOk(s)
    \/ \E l \in LoopIds, landed \in BOOLEAN : CancelDelivered(l, landed)

SpecCounted == InitCounted /\ [][NextCounted]_vars

\* An observed run of _ensure_connected: stop() calls, one after the other,
\* on a link that may fail up to MaxConnFaults times.
InitConnect ==
    /\ Constructed
    /\ faults = MaxConnFaults
    /\ tally = [on |-> FALSE, sends |-> 0, preempts |-> 0, stops |-> 0]
    /\ log = [NoLog EXCEPT !.on = TRUE]

NextConnect ==
    \/ \E c \in CallIds : Stop(c)
    \/ \E s \in Senders : ConnectOk(s)
    \/ \E s \in Senders : WriteOk(s)
    \/ FaultStep
    \/ Gone

SpecConnect == InitConnect /\ [][NextConnect]_vars

\* The scenario run: one send_command of a motor command for ScenarioTicks
\* intervals, nothing else, every write acknowledged at once or after a while.
MotorCommands == MOTOR1_COMMANDS \cup MOTOR2_COMMANDS \cup BOTH_MOTOR_COMMANDS

InitScenario ==
    /\ Constructed
    /\ faults = 0
    /\ tally = [on |-> TRUE, sends |-> 0, preempts |-> 0, stops |-> 0]
    /\ log = [NoLog EXCEPT !.on = TRUE]

NextScenario ==
    \/ /\ tally.sends = 0
       /\ \E c \in CallIds, cmd \in MotorCommands :
            \E order \in Orders(conflicting_channels(cmd)) :
               SendCommand(c, cmd, ScenarioTicks * COMMAND_INTERVAL_MS, order)
    \/ \E l \in LoopIds : LoopStart(l)
    \/ \E l \in LoopIds : SleepDone(l)
    \/ \E s \in Senders : ConnectOk(s)
    \/ \E s \in Senders : WriteOk(s)
    \/ \E s \in Senders : WriteSlow(s)

SpecScenario == InitScenario /\ [][NextScenario]_vars

\* Runs of up to MaxSends send_command calls on a link that may drop or fail
\* a connect or a write, in which
\* the event loop runs every task that is ready, every timer fires and every
\* call into the Bluetooth stack comes back.
InitTerm ==
    /\ Constructed
    /\ faults = MaxFaults
    /\ tally = [on |-> TRUE, sends |-> 0, preempts |-> 0, stops |-> 0]
    /\ log = NoLog

NextTerm ==
    \/ \E c \in CallIds, cmd \in CmdInputs, dur \in Durations :
         \E order \in Orders(conflicting_channels(cmd)) : SendCommand(c, cmd, dur, order)
    \/ \E c \in CallIds : TaskAwaited(c)
    \/ TaskStep
    \/ \E c \in ClientIds : Drop(c)
    \/ \E s \in Senders : ConnectFail(s)
    \/ \E s \in Senders : BackoffDone(s)
    \/ Gone

Fairness ==
    /\ \A l \in LoopIds : WF_vars(LoopStart(l))
    /\ \A l \in LoopIds : WF_vars(SleepDone(l))
    /\ \A l \in LoopIds : WF_vars(\E landed \in BOOLEAN : CancelDelivered(l, landed))
    /\ \A c \in CallIds : WF_vars(TaskAwaited(c))
    /\ \A s \in Senders : WF_vars(ConnectOk(s))
    /\ \A s \in Senders : WF_vars(BackoffDone(s))
    /\ \A s \in Senders : WF_vars(WriteOk(s) \/ WriteFail(s))
    /\ \A c \in ClientIds : WF_vars(OnDisconnect(c))

SpecTerm == InitTerm /\ [][NextTerm]_vars /\ Fairness

\* Two independent motors: a send_command of a motor 1 command, then one of a
\* motor 2 command, on a link that may drop or fail a connect or a write.  The
\* two loops are on different channels and neither call cancels anything.
InitSiblings ==
    /\ Constructed
    /\ faults = MaxFaults
    /\ tally = [on |-> TRUE, sends |-> 0, preempts |-> 0, stops |-> 0]
    /\ log = NoLog

NextSiblings ==
    \/ \E c \in CallIds, dur \in Durations :
         \E cmd \in IF tally.sends = 0 THEN MOTOR1_COMMANDS ELSE MOTOR2_COMMANDS :
            \E order \in Orders(conflicting_channels(cmd)) : SendCommand(c, cmd, dur, order)
    \/ \E l \in LoopIds : LoopStart(l)
    \/ \E l \in LoopIds : SleepDone(l)
    \/ \E s \in Senders : ConnectOk(s)
    \/ \E s \in Senders : WriteOk(s)
    \/ \E c \in ClientIds : Drop(c)
    \/ \E s \in Senders : ConnectFail(s)
    \/ \E s \in Senders : BackoffDone(s)
    \/ Gone

SpecSiblings == InitSiblings /\ [][NextSiblings]_vars

\* ---------------------------------------------------------------- claims
\* A loop is live: its task has started and is in the try block, sending.
Live(l) ==
    /\ loops[l].phase = "try"
    /\ loops[l].pc \in {"connecting", "backoff", "writing", "sleeping"}

Chan(l) == command_channel(loops[l].cmd)

Quiescent ==
    /\ \A l \in LoopIds : loops[l].pc \in {"free", "done"}
    /\ \A c \in CallIds : calls[c].pc = "idle"

\* C1: at any instant at most one live repeating-send loop per channel, under
\* every interleaving of send_command, stop, disconnect and loop exits.
C1_OneLiveLoopPerChannel ==
    \A ch \in Channels : Cardinality({l \in LoopIds : Live(l) /\ Chan(l) = ch}) <= 1

\* C2: under send_command (and stop) calls, a live loop on channel both never
\* coexists with a live loop on motor1 or motor2.
C2_NoConflictingLoops ==
    \A l, m \in LoopIds :
        Live(l) /\ Live(m) /\ l # m => Chan(l) # "both" /\ Chan(m) # "both"

C2_Witness ==
    \E l, m \in LoopIds :
        /\ Live(l) /\ Chan(l) = "both"
        /\ m # l /\ loops[m].phase = "finally" /\ loops[m].pc = "writing"

\* C3: when send_command registers its new loop, every loop it cancelled has
\* terminated (a terminated task writes nothing), so no frame of a pre-empted
\* loop can follow a frame of the new loop.
C3_PreemptedLoopsTerminated ==
    \A n \in LoopIds : loops[n].unfinished = {}

C3_Witness ==
    \E n \in LoopIds :
        /\ loops[n].pc = "created"
        /\ loops[n].cmd \in BOTH_MOTOR_COMMANDS
        /\ loops[n].npre = 2

\* A step of a send_command call with command cmd.
SendStep(cmd) ==
    \/ \E c \in CallIds :
         /\ calls'[c] # calls[c]
         /\ \/ calls[c].pc # "idle" /\ calls[c].op = "send" /\ calls[c].cmd = cmd
            \/ calls'[c].pc # "idle" /\ calls'[c].op = "send" /\ calls'[c].cmd = cmd
    \/ \E n \in LoopIds :
         loops[n].pc # "created" /\ loops'[n].pc = "created" /\ loops'[n].cmd = cmd

Untouched(ch) ==
    /\ DictGet(command_tasks', ch) = DictGet(command_tasks, ch)
    /\ \A l \in LoopIds :
         loops[l].phase = "try" /\ loops[l].pc \notin {"free", "done"} /\ Chan(l) = ch
            => loops'[l] = loops[l]

\* C4: send_command with a motor1-class command leaves a motor2 loop as it is
\* (not cancelled, same map entry, same command), and the other way round.
C4_IndependentChannelUntouched ==
    [][/\ \A cmd \in MOTOR1_COMMANDS : SendStep(cmd) => Untouched("motor2")
       /\ \A cmd \in MOTOR2_COMMANDS : SendStep(cmd) => Untouched("motor1")]_vars

C4_Witness ==
    \E l, m \in LoopIds :
        /\ Live(l) /\ Chan(l) = "motor2" /\ DictGet(command_tasks, "motor2") = l
        /\ loops[m].pc = "created" /\ Chan(m) = "motor1"

\* Loop l leaves its try block in this step without being cancelled.
ExitsUncancelled(l) ==
    /\ loops[l].phase = "try"
    /\ loops[l].pc \in {"created", "connecting", "backoff", "writing", "sleeping"}
    /\ ~loops[l].cancelReq
    /\ loops'[l].phase = "finally" \/ loops'[l].pc \in {"done", "free"}

\* C5: a loop that ends by completion or by error goes on to send the
\* trailing stop frame if and only if, its own entry removed, no task in the
\* map is still running.
C5_TrailingStopIffLast ==
    [][\A l \in LoopIds :
         ExitsUncancelled(l) =>
            (loops'[l].phase = "finally" <=>
               \A i \in DOMAIN command_tasks' :
                  loops'[command_tasks'[i].task].pc \in {"done", "free"})]_vars

C5_Witness ==
    \E l, m \in LoopIds :
        /\ loops[l].phase = "finally" /\ loops[l].exit = "error"
        /\ loops[m].phase = "finally" /\ loops[m].exit = "natural"

\* C6: a cancelled loop writes no stop frame: the stop frames never exceed the
\* loops that were not pre-empted, and send_command X, send_command Y that
\* pre-empts X, Y completing on its own, gives exactly one stop frame.
C6_OneStopAfterPreempt ==
    /\ tally.stops + tally.preempts <= tally.sends
    /\ Quiescent /\ tally.sends = 2 /\ tally.preempts = 1 => tally.stops = 1

C6_Witness ==
    Quiescent /\ tally.sends = 2 /\ tally.preempts = 1 /\ tally.stops = 1

SendPcs == {"connecting", "backoff", "writing"}

\* A command loop's frame reaches the device in this step.
MotorWrite ==
    \E l \in LoopIds :
        loops[l].phase = "try" /\ loops[l].pc = "writing" /\ loops'[l].pc = "sleeping"

StopReturns(c) ==
    calls[c].op = "stop" /\ calls[c].pc # "idle" /\ calls'[c].pc = "idle"

\* C7: once stop() has cancelled the loops no motor frame is written until it
\* returns; when it returns no loop is active and, its write acknowledged, the
\* stop frame is the last frame written.
C7_StopLeavesNothingRunning ==
    [][\A c \in CallIds :
         /\ calls[c].op = "stop" /\ calls[c].pc \in SendPcs => ~MotorWrite
         /\ StopReturns(c) =>
              /\ command_tasks' = <<>>
              /\ \A l \in LoopIds : ~Live(l)'
              /\ calls'[c].caught \/ lastCmd' = CMD_STOP]_vars

\* C8: stop() returns normally also when its connect or write failed, with
\* the lock released and the map empty.
C8_StopNeverRaises ==
    [][\A c \in CallIds :
         StopReturns(c) =>
            calls'[c].result = "returned" /\ lock' = 0 /\ command_tasks' = <<>>]_vars

C8_Witness ==
    \E c \in CallIds :
        /\ calls[c].pc = "idle" /\ calls[c].result = "returned" /\ calls[c].caught
        /\ lock = 0 /\ command_tasks = <<>>

\* C9: no call ever hands an error to its caller: send_command returns once
\* the loop is scheduled, and a failure inside a loop only ends that loop.
C9_LoopFailureStaysInLoop ==
    \A c \in CallIds : calls[c].result # "raised"

C9_Witness ==
    /\ \E l \in LoopIds : loops[l].phase = "finally" /\ loops[l].exit = "error"
    /\ \E c \in CallIds : calls[c].pc = "idle" /\ calls[c].result = "returned"

\* C10: when nothing runs any more and the last send succeeded, the last
\* frame the device received is the stop frame.
C10_LeftStopped ==
    Quiescent /\ lastCmd \notin {0, SendFailed} => lastCmd = CMD_STOP

C10_Witness ==
    /\ Quiescent /\ lastCmd = CMD_STOP
    /\ faults = MaxFaults
    /\ \E c \in CallIds : calls[c].result = "returned"

\* disconnect() returns in this step.
DisconnectReturns ==
    \/ \E c \in CallIds :
         calls[c].op = "disconnect" /\ calls[c].pc # "idle" /\ calls'[c].pc = "idle"
    \/ /\ disconnects' > disconnects
       /\ \A c \in CallIds : calls'[c].op # "disconnect"

\* C11: when disconnect() returns no command loop is left running or able to
\* write and the held client and characteristic are None, and they stay None
\* while no call is made.
C11_DisconnectLeavesNothing ==
    [][/\ DisconnectReturns =>
            /\ client' = 0 /\ target_char' = 0
            /\ \A l \in LoopIds : loops'[l].pc \in {"free", "done"}
       /\ disconnects > 0 /\ Quiescent /\ client = 0 /\ calls' = calls =>
            client' = 0 /\ target_char' = 0]_vars

\* C12: under the ceiling of 3 attempts, a call of _ensure_connected whose
\* first two attempts failed and whose third succeeded returns the client,
\* has slept once after attempt 1 and longer after attempt 2, and holds the
\* client it returns.
C12_ThirdAttemptSucceeds ==
    log.ended = "returned" /\ log.attempts = 3 =>
        /\ Len(log.sleeps) = 2
        /\ 0 < log.sleeps[1] /\ log.sleeps[1] < log.sleeps[2]
        /\ log.held

C12_Witness ==
    /\ log.ended = "returned" /\ log.attempts = 3
    /\ log.last = [n |-> 2, kind |-> "connect"]
    /\ is_connected(World, client) /\ target_char = client

\* C13: a call of _ensure_connected makes at most 3 attempts; when all fail
\* it raises the connection failure with the error of attempt 3, has slept
\* after attempts 1 and 2 only, and leaves no client and no characteristic.
C13_GivesUpAfterThree ==
    /\ log.attempts <= 3
    /\ log.ended = "raised" =>
        /\ log.attempts = 3
        /\ log.error = "ConnectionFailed"
        /\ log.carried = log.last /\ log.carried.n = 3
        /\ Len(log.sleeps) = 2
        /\ client = 0 /\ target_char = 0

C13_Witness ==
    /\ log.ended = "raised"
    /\ log.carried = [n |-> 3, kind |-> "connect"]
    /\ faults = 0

\* C14: a call of _ensure_connected that ends on a lookup which found no
\* device raises DeviceNotFound, not the failure of exhausted attempts.
C14_DeviceNotFound ==
    log.ended = "raised" /\ log.carried.kind = "not_found" =>
        log.error = "DeviceNotFound"

\* The disconnected_callback of client c runs in this step.
Notified(c) == cstate[c] = "lost" /\ cstate'[c] = "free"

\* Client x is held, connected, with its characteristic resolved, after the step.
HeldAfter(x) ==
    /\ x # 0 /\ client' = x /\ cstate'[x] = "connected"
    /\ target_char' = find_characteristic(x)

\* C15: the disconnect notification clears the held client and the
\* characteristic and changes no loop and no call; and whenever a write is
\* issued, the client is held and connected and its characteristic resolved:
\* a send that finds no connection makes one first.
C15_DisconnectIsATransition ==
    [][/\ \A c \in ClientIds :
            Notified(c) =>
                /\ client' = 0 /\ target_char' = 0
                /\ loops' = loops /\ calls' = calls /\ command_tasks' = command_tasks
       /\ \A l \in LoopIds :
            /\ loops'[l].pc = "writing"
            /\ loops[l].pc # "writing" \/ loops[l].phase # loops'[l].phase
            => HeldAfter(loops'[l].local)
       /\ \A k \in CallIds :
            calls'[k].pc = "writing" /\ calls[k].pc # "writing"
            => HeldAfter(calls'[k].local)]_vars

C15_Witness ==
    /\ client = 0 /\ target_char = 0
    /\ \A c \in ClientIds : cstate[c] = "free"
    /\ \A k \in CallIds : calls[k].pc = "idle"
    /\ \E l \in LoopIds :
         /\ Live(l) /\ loops[l].pc = "sleeping" /\ lastCmd = loops[l].cmd
         /\ \A m \in LoopIds \ {l} : loops[m].pc = "free"

\* C16: with the event loop running every ready task, every loop that
\* send_command started comes to its end, by the end of its duration, by
\* cancellation or by error, and its slot is free again only when the map no
\* longer refers to it; a loop past its try block is never in the map.
C16_EveryLoopTerminates ==
    /\ \A l \in LoopIds : (loops[l].pc # "free") ~> (loops[l].pc = "free")
    /\ [](\A i \in DOMAIN command_tasks :
            /\ loops[command_tasks[i].task].pc # "free"
            /\ loops[command_tasks[i].task].phase # "finally")

C16_Witness ==
    /\ Quiescent /\ command_tasks = <<>>
    /\ \A l \in LoopIds : loops[l].pc = "free"
    /\ tally.sends = MaxSends /\ tally.preempts > 0 /\ lastCmd = SendFailed

\* The one send_command of the scenario has run to its end.
ScenarioOver == Quiescent /\ tally.sends = 1

\* C17 as stated: the command of ScenarioTicks intervals, alone and with
\* every write acknowledged, writes exactly ScenarioTicks motor frames, then
\* one stop frame and nothing after it.
C17_ExactlyOneFramePerInterval ==
    ScenarioOver =>
        log.frames = ScenarioTicks /\ tally.stops = 1 /\ lastCmd = CMD_STOP

\* C17 amended: it writes at least one and at most ScenarioTicks motor frames,
\* exactly ScenarioTicks when no write takes time, then one stop frame and
\* nothing after it.
C17_AtMostOneFramePerInterval ==
    /\ log.frames <= ScenarioTicks
    /\ tally.stops > 0 => ScenarioOver
    /\ ScenarioOver =>
        /\ log.frames >= 1
        /\ ~log.slow => log.frames = ScenarioTicks
        /\ tally.stops = 1 /\ lastCmd = CMD_STOP

C17_Witness ==
    /\ ScenarioOver /\ ~log.slow
    /\ log.frames = ScenarioTicks /\ tally.stops = 1 /\ log.code = CMD_STOP

\* The frame of command code c the protocol asks for: 00 00 c 01 01 01 00 00,
\* the command byte at index 2 counted from 0, the third byte.
ExpectedFrame(c) == <<0, 0, c, 1, 1, 1, 0, 0>>

\* C18: for each of the six motor commands and stop, the frame built has 8
\* bytes, the template's bytes everywhere but at index 2, which holds the
\* command code; and building frames never changes the template.
C18_FrameFromTemplate ==
    /\ log.template = <<0, 0, 0, 1, 1, 1, 0, 0>>
    /\ log.frame # <<>> =>
         Len(log.frame) = 8 /\ log.frame = ExpectedFrame(log.code)
    /\ \A c \in MotorCommands \cup {CMD_STOP} :
         /\ build_command(log.template, c).frame = ExpectedFrame(c)
         /\ build_command(log.template, c).template = <<0, 0, 0, 1, 1, 1, 0, 0>>

C18_Witness ==
    /\ log.code = CMD_BOTH_CLOSE
    /\ log.frame = <<0, 0, 6, 1, 1, 1, 0, 0>>
    /\ log.frames > 1

\* C19: the motor1 commands go to channel motor1 and conflict with motor1 and
\* both, the motor2 commands go to motor2 and conflict with motor2 and both,
\* the both commands go to both and conflict with all three; a command's
\* conflicts contain its own channel, and a loop is in the map under the
\* channel of its command.
C19_ChannelsAndConflicts ==
    /\ \A c \in {CMD_MOTOR1_OPEN, CMD_MOTOR1_CLOSE} :
         command_channel(c) = "motor1" /\ conflicting_channels(c) = {"motor1", "both"}
    /\ \A c \in {CMD_MOTOR2_OPEN, CMD_MOTOR2_CLOSE} :
         command_channel(c) = "motor2" /\ conflicting_channels(c) = {"motor2", "both"}
    /\ \A c \in {CMD_BOTH_OPEN, CMD_BOTH_CLOSE} :
         /\ command_channel(c) = "both"
         /\ conflicting_channels(c) = {"motor1", "motor2", "both"}
    /\ \A c \in MotorCommands : command_channel(c) \in conflicting_channels(c)
    /\ \A i \in DOMAIN command_tasks :
         LET c == loops[command_tasks[i].task].cmd IN
         command_tasks[i].ch =
            IF c \in {CMD_MOTOR1_OPEN, CMD_MOTOR1_CLOSE} THEN "motor1"
            ELSE IF c \in {CMD_MOTOR2_OPEN, CMD_MOTOR2_CLOSE} THEN "motor2"
            ELSE "both"

C19_Witness ==
    \E l \in LoopIds :
        /\ command_tasks = <<[ch |-> "motor2", task |-> l]>>
        /\ loops[l].cmd = CMD_MOTOR2_CLOSE /\ loops[l].pc = "sleeping"

\* Loop l is out of its try block after the step.
LeftTry(l) == loops'[l].phase = "finally" \/ loops'[l].pc \in {"done", "free"}

\* C20: a loop whose send fails leaves its try block in that very step: from
\* a write it goes on to the sleep (the write was acknowledged) or out, from
\* a connection attempt to the next attempt of the same send, to the write,
\* or out; once out, its entry is gone from the map, it never sends a command
\* frame again, and it sends the stop frame only when no other task is
\* running.
C20_FailureEndsTheLoop ==
    [][\A l \in LoopIds :
         /\ /\ loops[l].phase = "try" /\ loops[l].pc \in SendPcs
            /\ ~loops[l].cancelReq /\ ~loops'[l].cancelReq
            /\ loops'[l] # loops[l]
            => \/ /\ LeftTry(l)
                  /\ \A i \in DOMAIN command_tasks' : command_tasks'[i].task # l
                  /\ loops'[l].phase = "finally" =>
                       /\ loops'[l].scmd = CMD_STOP
                       /\ \A i \in DOMAIN command_tasks' :
                            loops'[command_tasks'[i].task].pc \in {"done", "free"}
               \/ /\ loops[l].pc = "writing"
                  /\ loops'[l].phase = "try" /\ loops'[l].pc = "sleeping"
               \/ /\ loops[l].pc \in {"connecting", "backoff"}
                  /\ loops'[l].phase = "try"
                  /\ loops'[l].pc \in SendPcs
                  /\ loops'[l].scmd = loops[l].scmd
                  /\ loops'[l].attempt >= loops[l].attempt
         /\ loops[l].phase = "finally" =>
               \/ loops'[l].pc \in {"done", "free"}
               \/ loops'[l].phase = "finally" /\ loops'[l].scmd = CMD_STOP]_vars

C20_Witness ==
    \E l \in LoopIds :
        /\ loops[l].phase = "finally" /\ loops[l].exit = "error"
        /\ loops[l].pc = "connecting" /\ loops[l].scmd = CMD_STOP
        /\ lastCmd = SendFailed /\ command_tasks = <<>>

\* Loop l, in its finally block, has its stop frame acknowledged in this step.
TrailingStopWritten(l) ==
    /\ loops[l].phase = "finally" /\ loops[l].pc = "writing"
    /\ loops[l].scmd = CMD_STOP
    /\ loops'[l].pc \in {"done", "free"}
    /\ lastCmd' = CMD_STOP

\* C21: with two loops on different channels, the trailing stop frame of one
\* never reaches the device while the other is live (started and in its try
\* block).
C21_NoStopWhileSiblingLive ==
    [][\A l \in LoopIds :
         TrailingStopWritten(l) => \A m \in LoopIds \ {l} : ~Live(m)]_vars

\* The clients with a connect() in flight, and those whose link is open.
Connecting == {c \in ClientIds : cstate[c] = "connecting"}
Open == {c \in ClientIds : cstate[c] = "connected"}

\* C22: at most one connection attempt is in flight, at most one link is
\* open, and an open link is the one self._client holds.
C22_SingleConnection ==
    /\ Cardinality(Connecting) <= 1
    /\ Cardinality(Open) <= 1
    /\ \A c \in Open : client = c

\* C23: the notification of client c, when self._client holds another client
\* whose link is open, leaves self._client and self._target_char as they are.
C23_LateNotificationIgnored ==
    [][\A c \in ClientIds :
         Notified(c) /\ client # c /\ is_connected(World, client)
            => client' = client /\ target_char' = target_char]_vars

====
